---------------------------- MODULE Spec2Model ----------------------------
(***************************************************************************)
(* Model of the document summarization agent of                            *)
(* src/app/summarize/summarization_agent.py: the ProgressTracker, the      *)
(* ContextManager (token estimate, unit grouping, truncation, repair),     *)
(* the CheckpointManager and the DocumentSummarizationAgent.run loop.      *)
(*                                                                         *)
(* Text is modelled by its length in characters: every len(...) the code   *)
(* takes is computed here from the pieces the code formats.                *)
(***************************************************************************)
EXTENDS Integers, Sequences, FiniteSets, TLC

VARIABLES
    tracker,        \* the module-level _progress_tracker (a ProgressTracker)
    messages,       \* DocumentSummarizationAgent.messages
    max_tokens,     \* ContextManager.max_tokens
    store,          \* the checkpoint file of the input: <<>> or <<checkpoint>>
    pc,             \* position of run(): the step that executes next
    iteration,      \* the loop variable of run()
    stall_count,    \* run(): stall_count
    last_progress,  \* run(): last_progress
    tool_calls,     \* run(): the tool calls of the response not yet dispatched
    ret,            \* how run() ended: "none", "true", "false", "raised"
    doc_units,      \* the input document: len(doc) of the PDF, or its lines
    last_op,        \* the operation the last step applied, with its arguments
    ctx_in,         \* ContextManager: the message list an operation was given
    ctx_out,        \* ContextManager: the message list it returned
    start_iteration, \* DocumentSummarizationAgent.start_iteration
    pct_log,        \* run(): per iteration head, the percentage it saw and
                    \* whether it appended a stall directive (the last 4)
    output_file,    \* the file at config.output_path: <<>> when it does not
                    \* exist, <<content>> when it does
    checkpoint_dir  \* the checkpoint directory shared by all inputs, by file
                    \* name: <<>> for no file, <<bytes>> for a file. The file
                    \* of the run's own input is kept in store.

vars == <<tracker, messages, max_tokens, store, pc, iteration, stall_count,
          last_progress, tool_calls, ret, doc_units, last_op, ctx_in, ctx_out,
          start_iteration, pct_log, output_file, checkpoint_dir>>

(***************************************************************************)
(* Bounds of the model                                                     *)
(***************************************************************************)
MaxTotal == 3       \* pages / lines of a document
MaxIterations == 5  \* SummarizationConfig.max_iterations of the modelled run
MaxCtxLen == 6      \* messages after the two prompts in an enumerated conversation
MaxRanges == 2      \* entries of line_ranges_read
MaxGroupLen == 4    \* messages of a conversation given to the grouping alone
AutoCheckpointInterval == 2  \* SummarizationConfig.auto_checkpoint_interval of the run
SmallLen == 40      \* characters of a short text
BigLen == 400000    \* characters of a long text (120000 estimated tokens)

(***************************************************************************)
(* Program constants                                                       *)
(***************************************************************************)
DefaultMaxContextTokens == 180000  \* SummarizationConfig.max_context_tokens
MinRecentMessages == 10            \* ContextManager.min_recent_messages
TokenBuffer == 10000               \* truncate_if_needed: "- 10000  # Buffer"
RecoveryTemplateLen == 168         \* len of the recovery text around the summary
PlaceholderLen == 20               \* len("(response truncated)")
SummaryCap == 500                  \* mark_section_filled: summary[:500]
DefaultChunkSize == 10             \* get_next_chunk(chunk_size=10)
SystemPromptLen == 978             \* len(get_system_prompt(config)), config of __main__
UserPromptLen == 333               \* len(get_user_prompt(config)), config of __main__
ResumeTemplateLen == 122           \* len of get_resume_prompt around its fields

Min(a, b) == IF a <= b THEN a ELSE b
Max(a, b) == IF a >= b THEN a ELSE b

RECURSIVE SumSeq(_)
SumSeq(s) == IF s = <<>> THEN 0 ELSE Head(s) + SumSeq(Tail(s))

\* len(str(n)) of an integer
RECURSIVE NatLen(_)
NatLen(n) == IF n < 10 THEN 1 ELSE 1 + NatLen(n \div 10)
DecLen(n) == IF n < 0 THEN 1 + NatLen(-n) ELSE NatLen(n)

\* the elements of a set of integers in increasing order: sorted(S)
RECURSIVE Sorted(_)
Sorted(S) ==
    IF S = {} THEN <<>>
    ELSE LET m == CHOOSE x \in S : \A y \in S : x <= y IN <<m>> \o Sorted(S \ {m})

\* len(str(list_of_ints)): "[1, 2, 3]"
IntListLen(s) ==
    IF Len(s) = 0 THEN 2
    ELSE 2 + SumSeq([i \in 1..Len(s) |-> DecLen(s[i])]) + 2 * (Len(s) - 1)

\* len(str(list_of_str)): "['A', 'B']"
StrListLen(s) ==
    IF Len(s) = 0 THEN 2
    ELSE 2 + SumSeq([i \in 1..Len(s) |-> Len(s[i]) + 2]) + 2 * (Len(s) - 1)

(***************************************************************************)
(* PROGRESS TRACKER                                                        *)
(***************************************************************************)
Phases == {"INIT", "TEMPLATE", "EXTRACTION", "FINALIZE", "DONE"}

\* ProgressTracker(total_pages=tp, total_lines=tl, is_pdf=pdf)
NewTracker(tp, tl, pdf) ==
    [ total_pages |-> tp, total_lines |-> tl, is_pdf |-> pdf,
      pages_read |-> {}, line_ranges_read |-> <<>>,
      template_created |-> FALSE,
      sections_identified |-> <<>>,
      sections_filled |-> <<>>,      \* dict, in insertion order: <<[name, filled]>>
      current_phase |-> "INIT",
      extraction_complete |-> FALSE,
      section_summaries |-> <<>> ]   \* dict, in insertion order: <<[name, text]>>

\* range(start, end + 1) added to pages_read
mark_pages_read(tr, start, end) ==
    [tr EXCEPT !.pages_read = @ \cup {p \in start..end : TRUE}]

mark_lines_read(tr, start, end) ==
    [tr EXCEPT !.line_ranges_read = Append(@, <<start, end>>)]

get_unread_pages(tr) == Sorted((1..tr.total_pages) \ tr.pages_read)

\* max(end for _, end in line_ranges_read)
MaxRead(tr) ==
    LET ends == {tr.line_ranges_read[i][2] : i \in 1..Len(tr.line_ranges_read)}
    IN  CHOOSE m \in ends : \A e \in ends : e <= m

\* None is <<>>, a chunk (start, end) is <<start, end>>
get_next_chunk(tr, chunk_size) ==
    IF tr.is_pdf
    THEN LET unread == get_unread_pages(tr) IN
         IF unread = <<>> THEN <<>>
         ELSE <<unread[1], Min(unread[1] + chunk_size - 1, tr.total_pages)>>
    ELSE IF tr.line_ranges_read = <<>>
         THEN <<1, Min(chunk_size * 100, tr.total_lines)>>
         ELSE IF MaxRead(tr) >= tr.total_lines THEN <<>>
              ELSE <<MaxRead(tr) + 1,
                     Min(MaxRead(tr) + chunk_size * 100, tr.total_lines)>>

\* sum(end - start + 1 for start, end in line_ranges_read)
LinesRead(tr) ==
    SumSeq([i \in 1..Len(tr.line_ranges_read) |->
                tr.line_ranges_read[i][2] - tr.line_ranges_read[i][1] + 1])

\* The percentage as the fraction <<numerator, denominator>>, denominator > 0.
get_progress_percentage(tr) ==
    IF tr.is_pdf
    THEN IF tr.total_pages = 0 THEN <<0, 1>>
         ELSE <<Cardinality(tr.pages_read) * 100, tr.total_pages>>
    ELSE IF tr.total_lines = 0 THEN <<0, 1>>
         ELSE IF LinesRead(tr) * 100 >= 100 * tr.total_lines THEN <<100, 1>>
              ELSE <<LinesRead(tr) * 100, tr.total_lines>>

PctEq(p, q) == p[1] * q[2] = q[1] * p[2]
PctLeq(p, q) == p[1] * q[2] <= q[1] * p[2]
PctPositive(p) == p[1] > 0

is_reading_complete(tr) ==
    IF tr.is_pdf
    THEN Cardinality(tr.pages_read) >= tr.total_pages
    ELSE IF tr.line_ranges_read = <<>> THEN FALSE
         ELSE MaxRead(tr) >= tr.total_lines

\* dict helpers: a dict is a sequence of [k, v] in insertion order
DictHas(d, k) == \E i \in 1..Len(d) : d[i].k = k
DictGet(d, k, default) ==
    IF DictHas(d, k) THEN d[CHOOSE i \in 1..Len(d) : d[i].k = k].v ELSE default
DictSet(d, k, v) ==
    IF DictHas(d, k)
    THEN [i \in 1..Len(d) |-> IF d[i].k = k THEN [k |-> k, v |-> v] ELSE d[i]]
    ELSE Append(d, [k |-> k, v |-> v])
DictKeys(d) == [i \in 1..Len(d) |-> d[i].k]

\* mutant: the summary is stored whole
mark_section_filled_uncut(tr, section_name, summary) ==
    LET t1 == [tr EXCEPT !.sections_filled = DictSet(@, section_name, TRUE)]
    IN  IF summary # <<>>
        THEN [t1 EXCEPT !.section_summaries = DictSet(@, section_name, summary)]
        ELSE t1

\* summary is the summary text, a sequence of characters; "" is <<>>
mark_section_filled(tr, section_name, summary) ==
    LET t1 == [tr EXCEPT !.sections_filled = DictSet(@, section_name, TRUE)]
    IN  IF summary # <<>>
        THEN [t1 EXCEPT !.section_summaries =
                 DictSet(@, section_name,
                         SubSeq(summary, 1, Min(Len(summary), SummaryCap)))]
        ELSE t1

get_unfilled_sections(tr) ==
    SelectSeq(tr.sections_identified,
              LAMBDA s : ~DictGet(tr.sections_filled, s, FALSE))

\* len of f"{p:.1f}" for the fraction p
PctFmtLen(p) ==
    LET tenths == IF p[1] >= 0 THEN (2 * 10 * p[1] + p[2]) \div (2 * p[2])
                  ELSE (2 * 10 * (-p[1]) + p[2]) \div (2 * p[2])
        sign == IF p[1] < 0 /\ tenths > 0 THEN 1 ELSE 0
    IN  sign + NatLen(tenths \div 10) + 2

\* len(get_context_summary()): the parts joined by "\n"
ContextSummaryLen(tr) ==
    LET next_chunk == get_next_chunk(tr, DefaultChunkSize)
        base == <<22,
                  13 + DecLen(tr.total_pages),
                  12 + NatLen(Cardinality(tr.pages_read)) + 2
                     + PctFmtLen(get_progress_percentage(tr)) + 2,
                  12 + IntListLen(Sorted(tr.pages_read)),
                  7 + Len(tr.current_phase),
                  18 + (IF tr.template_created THEN 4 ELSE 5),
                  17 + StrListLen(DictKeys(tr.sections_filled)),
                  10 + StrListLen(get_unfilled_sections(tr))>>
        next == IF next_chunk # <<>>
                THEN <<17 + DecLen(next_chunk[1]) + 1 + DecLen(next_chunk[2])>>
                ELSE <<>>
        sums == IF tr.section_summaries # <<>>
                THEN <<26>> \o
                     [i \in 1..Len(tr.section_summaries) |->
                        1 + Len(tr.section_summaries[i].k) + 3
                          + Min(Len(tr.section_summaries[i].v), 150) + 3]
                ELSE <<>>
        parts == base \o next \o sums
    IN  SumSeq(parts) + (Len(parts) - 1)

\* len(json.dumps(x, indent=2)) of a list of numbers at nesting depth d;
\* lens are the lengths of the items
JsonListLen(lens, d) ==
    IF Len(lens) = 0 THEN 2
    ELSE 2 + SumSeq([i \in 1..Len(lens) |-> 2 * d + lens[i]]) + 2 * (Len(lens) - 1)
           + 1 + 2 * (d - 1) + 1

BoolLen(b) == IF b THEN 4 ELSE 5

\* len of repr(round(p, 1)) for the fraction p
PctReprLen(p) == PctFmtLen(p)

\* len(json.dumps(to_dict(), indent=2)): what get_progress and
\* update_progress return
ProgressJsonLen(tr) ==
    LET next_chunk == get_next_chunk(tr, DefaultChunkSize)
        pages == Sorted(tr.pages_read)
        unfilled == get_unfilled_sections(tr)
        items == <<
            15 + DecLen(tr.total_pages),
            15 + DecLen(tr.total_lines),
            10 + BoolLen(tr.is_pdf),
            14 + JsonListLen([i \in 1..Len(pages) |-> DecLen(pages[i])], 2),
            20 + NatLen(Cardinality(tr.pages_read)),
            20 + JsonListLen([i \in 1..Len(tr.line_ranges_read) |->
                                JsonListLen(<<DecLen(tr.line_ranges_read[i][1]),
                                              DecLen(tr.line_ranges_read[i][2])>>, 3)], 2),
            23 + PctReprLen(get_progress_percentage(tr)),
            20 + BoolLen(is_reading_complete(tr)),
            20 + BoolLen(tr.template_created),
            17 + Len(tr.current_phase) + 2,
            23 + JsonListLen([i \in 1..Len(tr.sections_identified) |->
                                Len(tr.sections_identified[i]) + 2], 2),
            19 + JsonListLen([i \in 1..Len(tr.sections_filled) |->
                                Len(tr.sections_filled[i].k) + 4
                                  + BoolLen(tr.sections_filled[i].v)], 2),
            21 + JsonListLen([i \in 1..Len(unfilled) |-> Len(unfilled[i]) + 2], 2),
            22 + (IF next_chunk = <<>> THEN 4
                  ELSE JsonListLen(<<DecLen(next_chunk[1]), DecLen(next_chunk[2])>>, 2)) >>
    IN  2 + SumSeq([i \in 1..Len(items) |-> 2 + items[i]]) + 2 * (Len(items) - 1) + 2

(***************************************************************************)
(* MESSAGES                                                                *)
(* A message is a record: role, content (its length), tool_calls (of an    *)
(* assistant response), tool_call_id (of a tool result, "" otherwise) and  *)
(* text, which names what the content says.  A tool call is a record: id,  *)
(* name, arguments (the length of the JSON text), json_ok (whether         *)
(* json.loads accepts it) and args, the parsed keyword arguments.          *)
(***************************************************************************)
Ids == {"a", "b"}

Msg(role, content, tcs, tcid, text) ==
    [role |-> role, content |-> content, tool_calls |-> tcs,
     tool_call_id |-> tcid, text |-> text]

ToolCall(id, name, args, json_ok, arguments) ==
    [id |-> id, name |-> name, args |-> args, json_ok |-> json_ok,
     arguments |-> arguments]

_get_message_role(m) == m.role
_has_tool_calls(m) == m.tool_calls # <<>>
_get_tool_call_ids(m) == {m.tool_calls[i].id : i \in 1..Len(m.tool_calls)}
_get_tool_call_id(m) == m.tool_call_id

\* total_chars of one message: its content, and for a response with tool
\* calls the name and the arguments of each
MsgChars(m) ==
    m.content +
    SumSeq([i \in 1..Len(m.tool_calls) |->
                Len(m.tool_calls[i].name) + m.tool_calls[i].arguments])

\* int(total_chars * 0.3)
estimate_tokens(msgs) ==
    (SumSeq([i \in 1..Len(msgs) |-> MsgChars(msgs[i])]) * 3) \div 10

\* the index after the tool results that follow position i - 1 and answer ids
\* mutant: every tool result that follows is absorbed, whatever its id
RECURSIVE AbsorbAnyTool(_, _, _)
AbsorbAnyTool(msgs, i, ids) ==
    IF i <= Len(msgs) /\ _get_message_role(msgs[i]) = "tool"
    THEN AbsorbAnyTool(msgs, i + 1, ids)
    ELSE i

RECURSIVE AbsorbTools(_, _, _)
AbsorbTools(msgs, i, ids) ==
    IF i <= Len(msgs) /\ _get_message_role(msgs[i]) = "tool"
                      /\ _get_tool_call_id(msgs[i]) \in ids
    THEN AbsorbTools(msgs, i + 1, ids)
    ELSE i

RECURSIVE GroupFrom(_, _)
GroupFrom(msgs, i) ==
    IF i > Len(msgs) THEN <<>>
    ELSE IF _get_message_role(msgs[i]) = "assistant" /\ _has_tool_calls(msgs[i])
         THEN LET j == AbsorbTools(msgs, i + 1, _get_tool_call_ids(msgs[i]))
              IN  <<SubSeq(msgs, i, j - 1)>> \o GroupFrom(msgs, j)
         ELSE <<SubSeq(msgs, i, i)>> \o GroupFrom(msgs, i + 1)

_group_messages_by_conversation_units(msgs) == GroupFrom(msgs, 1)

_estimate_unit_tokens(unit) == estimate_tokens(unit)

RECURSIVE Flatten(_)
Flatten(units) == IF units = <<>> THEN <<>> ELSE Head(units) \o Flatten(Tail(units))

\* The placeholders for the pending ids.  The code iterates a Python set of
\* strings, whose order is not fixed: ord is the order of that iteration.
\* mutant: a placeholder is made for every id, pending or not
PlaceholdersAll(pending, ord) ==
    LET ids == SelectSeq(ord, LAMBDA t : TRUE)
    IN  [i \in 1..Len(ids) |-> Msg("tool", PlaceholderLen, <<>>, ids[i], "placeholder")]

Placeholders(pending, ord) ==
    LET ids == SelectSeq(ord, LAMBDA t : t \in pending)
    IN  [i \in 1..Len(ids) |-> Msg("tool", PlaceholderLen, <<>>, ids[i], "placeholder")]

RECURSIVE ValidateFrom(_, _, _, _)
ValidateFrom(msgs, i, pending, ord) ==
    IF i > Len(msgs) THEN Placeholders(pending, ord)
    ELSE LET msg == msgs[i]
             role == _get_message_role(msg)
         IN  IF role = "tool"
             THEN IF _get_tool_call_id(msg) \in pending
                  THEN <<msg>> \o ValidateFrom(msgs, i + 1,
                                     pending \ {_get_tool_call_id(msg)}, ord)
                  ELSE ValidateFrom(msgs, i + 1, pending, ord)
             ELSE IF role = "assistant" /\ _has_tool_calls(msg)
                  THEN <<msg>> \o ValidateFrom(msgs, i + 1,
                                     _get_tool_call_ids(msg), ord)
                  ELSE Placeholders(pending, ord) \o <<msg>>
                       \o ValidateFrom(msgs, i + 1, {}, ord)

_validate_and_fix_messages(msgs, ord) == ValidateFrom(msgs, 1, {}, ord)

RecoveryMessage(tr) ==
    Msg("user", RecoveryTemplateLen + ContextSummaryLen(tr), <<>>, "", "recovery")

\* mutant: the scan compares each unit alone with the budget, not the sum
RECURSIVE GreedyKeptNoSum(_, _, _, _)
GreedyKeptNoSum(remaining, k, tokens_used, available_tokens) ==
    IF k = 0 THEN 0
    ELSE IF _estimate_unit_tokens(remaining[k]) <= available_tokens
         THEN 1 + GreedyKeptNoSum(remaining, k - 1, tokens_used, available_tokens)
         ELSE 0

\* the number of units the scan from the newest unit keeps
RECURSIVE GreedyKept(_, _, _, _)
GreedyKept(remaining, k, tokens_used, available_tokens) ==
    IF k = 0 THEN 0
    ELSE LET unit_tokens == _estimate_unit_tokens(remaining[k])
         IN  IF tokens_used + unit_tokens <= available_tokens
             THEN 1 + GreedyKept(remaining, k - 1, tokens_used + unit_tokens,
                                 available_tokens)
             ELSE 0

\* s[-n:]
LastN(s, n) == IF n >= Len(s) THEN s ELSE SubSeq(s, Len(s) - n + 1, Len(s))

AvailableTokens(units, tr, maxtok) ==
    maxtok
    - SumSeq([i \in 1..2 |-> _estimate_unit_tokens(units[i])])
    - (RecoveryMessage(tr).content * 3) \div 10
    - TokenBuffer

\* whether the truncation replaces the scan's units by the forced tail
ForceKeep(remaining, kept) ==
    kept < MinRecentMessages \div 2 /\ remaining # <<>>

\* mutant: the oldest of the remaining units are kept, not the newest
KeptUnitsOldest(remaining, available_tokens) ==
    LET kept == GreedyKept(remaining, Len(remaining), 0, available_tokens)
    IN  IF ForceKeep(remaining, kept)
        THEN SubSeq(remaining, 1, Min(Len(remaining), Max(3, MinRecentMessages \div 3)))
        ELSE SubSeq(remaining, 1, kept)

KeptUnits(remaining, available_tokens) ==
    LET kept == GreedyKept(remaining, Len(remaining), 0, available_tokens)
    IN  IF ForceKeep(remaining, kept)
        THEN LastN(remaining, Max(3, MinRecentMessages \div 3))
        ELSE LastN(remaining, kept)

\* mutant: only the system prompt is preserved
PreservedStartOne(units) == SubSeq(units, 1, 1)

PreservedStart(units) == SubSeq(units, 1, 2)

\* mutant: the repair also runs on a conversation that is within the budget
truncate_always_repairs(msgs, tr, maxtok, ord) ==
    LET units == _group_messages_by_conversation_units(msgs) IN
    IF estimate_tokens(msgs) <= maxtok \/ Len(units) <= 3
    THEN _validate_and_fix_messages(msgs, ord)
    ELSE _validate_and_fix_messages(
             Flatten(PreservedStart(units)) \o <<RecoveryMessage(tr)>>
                 \o Flatten(KeptUnits(SubSeq(units, 3, Len(units)),
                                      AvailableTokens(units, tr, maxtok))),
             ord)

truncate_if_needed(msgs, tr, maxtok, ord) ==
    IF estimate_tokens(msgs) <= maxtok THEN msgs
    ELSE LET units == _group_messages_by_conversation_units(msgs) IN
         IF Len(units) <= 3 THEN msgs
         ELSE LET remaining == SubSeq(units, 3, Len(units))
                  kept_units == KeptUnits(remaining, AvailableTokens(units, tr, maxtok))
              IN  _validate_and_fix_messages(
                      Flatten(PreservedStart(units)) \o <<RecoveryMessage(tr)>>
                          \o Flatten(kept_units),
                      ord)

(***************************************************************************)
(* TOOL HANDLERS                                                           *)
(* An optional argument is a sequence: <<>> is None, <<v>> is the value v. *)
(***************************************************************************)
NoArgs ==
    [start_page |-> <<>>, end_page |-> <<>>,
     pages_read_start |-> <<>>, pages_read_end |-> <<>>,
     lines_read_start |-> <<>>, lines_read_end |-> <<>>,
     template_created |-> <<>>, sections_identified |-> <<>>,
     section_filled |-> <<>>, section_summary |-> <<>>, current_phase |-> <<>>]

\* mutant: every declared section is entered as not filled
RECURSIVE DeclareSectionsReset(_, _)
DeclareSectionsReset(filled, sections) ==
    IF sections = <<>> THEN filled
    ELSE DeclareSectionsReset(DictSet(filled, Head(sections), FALSE), Tail(sections))

RECURSIVE DeclareSections(_, _)
DeclareSections(filled, sections) ==
    IF sections = <<>> THEN filled
    ELSE DeclareSections(
             IF DictHas(filled, Head(sections)) THEN filled
             ELSE DictSet(filled, Head(sections), FALSE),
             Tail(sections))

\* the tracker after update_progress(**args)
update_progress(tr, args) ==
    LET t1 == IF args.pages_read_start # <<>> /\ args.pages_read_end # <<>>
              THEN mark_pages_read(tr, args.pages_read_start[1], args.pages_read_end[1])
              ELSE tr
        t2 == IF args.lines_read_start # <<>> /\ args.lines_read_end # <<>>
              THEN mark_lines_read(t1, args.lines_read_start[1], args.lines_read_end[1])
              ELSE t1
        t3 == IF args.template_created # <<>>
              THEN [t2 EXCEPT !.template_created = args.template_created[1]]
              ELSE t2
        t4 == IF args.sections_identified # <<>>
              THEN [t3 EXCEPT !.sections_identified = args.sections_identified[1],
                              !.sections_filled =
                                  DeclareSections(@, args.sections_identified[1])]
              ELSE t3
        t5 == IF args.section_filled # <<>>
              THEN mark_section_filled(t4, args.section_filled[1],
                       IF args.section_summary # <<>> THEN args.section_summary[1] ELSE <<>>)
              ELSE t4
    IN  IF args.current_phase # <<>>
        THEN [t5 EXCEPT !.current_phase = args.current_phase[1]]
        ELSE t5

\* read_pdf_pages on a document of total_pages pages: the 0-based page indexes
\* whose text is returned are start_idx .. end_idx - 1
ReadStartIdx(start_page) == Max(0, start_page - 1)
ReadEndIdx(total_pages, end_page) ==
    IF end_page = <<>> THEN total_pages ELSE Min(end_page[1], total_pages)
PagesReturned(total_pages, start_page, end_page) ==
    {i + 1 : i \in ReadStartIdx(start_page)..(ReadEndIdx(total_pages, end_page) - 1)}

\* the tracker after read_pdf_pages(file_path, start_page, end_page)
read_pdf_pages(tr, total_pages, start_page, end_page) ==
    mark_pages_read(tr, start_page, ReadEndIdx(total_pages, end_page))

\* the tracker after get_pdf_info(file_path)
get_pdf_info(tr, total_pages) == [tr EXCEPT !.total_pages = total_pages]

\* len(read_lines(file_path, start_line, end_line)) on a file of n lines
ReadLinesCount(n, start_line, end_line) ==
    LET start_idx == Max(0, start_line - 1)
        end_idx == IF end_line = <<>> THEN n ELSE Min(end_line[1], n)
        \* lines[start_idx:end_idx]: a negative end_idx counts from the end
        stop == IF end_idx < 0 THEN Max(0, n + end_idx) ELSE end_idx
    IN  Max(0, stop - Min(start_idx, n))

\* the tracker after read_lines_tracked(file_path, start_line, end_line)
read_lines_tracked(tr, n, start_line, end_line) ==
    LET count == ReadLinesCount(n, start_line, end_line)
        actual_end == IF count > 0 THEN start_line + count - 1 ELSE start_line
    IN  mark_lines_read(tr, start_line, actual_end)

(***************************************************************************)
(* Specification SpecTracker: a ProgressTracker under the tool handlers    *)
(* that mutate it, with arbitrary integer arguments.                       *)
(***************************************************************************)
ArgRange == 0..(MaxTotal + 1)
OptArg == {<<>>} \cup {<<n>> : n \in ArgRange}

Op(name, a, b) == [op |-> name, a |-> a, b |-> b]

(***************************************************************************)
(* THE CHECKPOINT DIRECTORY                                                *)
(* An input path is its directory, the characters of the name of its last  *)
(* component without the suffix, and the suffix.                           *)
(***************************************************************************)
StemCap == 50

\* names: a short one, one with a space, the same with "_", two of 51
\* characters that differ in the last one only
InputPaths ==
    LET path(dir, name, suffix) == [dir |-> dir, name |-> name, suffix |-> suffix]
        report == <<"r", "e", "p">>
        other  == <<"e", "i", "a">>
        space  == <<"m", "y", " ", "r">>
        under  == <<"m", "y", "_", "r">>
        longA  == [i \in 1..(StemCap + 1) |-> IF i > StemCap THEN "a" ELSE "x"]
        longB  == [i \in 1..(StemCap + 1) |-> IF i > StemCap THEN "b" ELSE "x"]
    IN  { path("docs", report, ".pdf"), path("old", report, ".pdf"),
          path("docs", report, ".txt"), path("docs", other, ".pdf"),
          path("docs", space, ".pdf"), path("docs", under, ".pdf"),
          path("docs", longA, ".pdf"), path("docs", longB, ".pdf") }

\* s.replace(" ", "_")
ReplaceSpaces(chars) == [i \in 1..Len(chars) |-> IF chars[i] = " " THEN "_" ELSE chars[i]]

\* CheckpointManager._get_checkpoint_path(input_path): the name of the file
\* in the checkpoint directory; Path(input_path).stem is input_path.name
_get_checkpoint_path(input_path) ==
    LET stem == input_path.name
        safe_name == SubSeq(ReplaceSpaces(stem), 1, Min(Len(stem), StemCap))
    IN  <<"checkpoint_">> \o safe_name \o <<".pkl">>

\* the directory with no checkpoint file
EmptyDir == [f \in {_get_checkpoint_path(p) : p \in InputPaths} |-> <<>>]

Idle ==
    /\ messages = <<>>
    /\ max_tokens = DefaultMaxContextTokens
    /\ store = <<>>
    /\ iteration = 0
    /\ stall_count = 0
    /\ last_progress = <<0, 1>>
    /\ tool_calls = <<>>
    /\ ret = "none"
    /\ start_iteration = 0
    /\ pct_log = <<>>
    /\ output_file = <<>>
    /\ checkpoint_dir = EmptyDir

InitTracker ==
    /\ Idle
    /\ pc = "tracker"
    /\ doc_units \in 1..MaxTotal
    /\ \/ tracker = NewTracker(0, 0, TRUE)
       \/ \E tl \in 0..MaxTotal : tracker = NewTracker(0, tl, FALSE)
    /\ last_op = Op("init", 0, 0)
    /\ ctx_in = <<>>
    /\ ctx_out = <<>>

loopvars == <<messages, max_tokens, store, pc, iteration, stall_count,
              last_progress, tool_calls, ret, start_iteration, pct_log>>

\* update_progress(pages_read_start=s, pages_read_end=e) on a PDF tracker,
\* update_progress(lines_read_start=s, lines_read_end=e) on a text tracker
TrUpdateProgress ==
    \E s \in ArgRange, e \in ArgRange :
        /\ Len(tracker.line_ranges_read) < MaxRanges
        /\ tracker' = update_progress(tracker,
                        IF tracker.is_pdf
                        THEN [NoArgs EXCEPT !.pages_read_start = <<s>>,
                                            !.pages_read_end = <<e>>]
                        ELSE [NoArgs EXCEPT !.lines_read_start = <<s>>,
                                            !.lines_read_end = <<e>>])
        /\ last_op' = Op("update_progress", s, e)
        /\ UNCHANGED <<loopvars, doc_units, checkpoint_dir, output_file, ctx_in, ctx_out>>

TrReadPdfPages ==
    \E s \in ArgRange, e \in OptArg :
        /\ tracker.is_pdf
        /\ tracker' = read_pdf_pages(tracker, doc_units, s, e)
        /\ last_op' = Op("read_pdf_pages", s, ReadEndIdx(doc_units, e))
        /\ UNCHANGED <<loopvars, doc_units, checkpoint_dir, output_file, ctx_in, ctx_out>>

TrGetPdfInfo ==
    /\ tracker.is_pdf
    /\ tracker' = get_pdf_info(tracker, doc_units)
    /\ last_op' = Op("get_pdf_info", 0, 0)
    /\ UNCHANGED <<loopvars, doc_units, checkpoint_dir, output_file, ctx_in, ctx_out>>

TrReadLinesTracked ==
    \E s \in ArgRange, e \in OptArg :
        /\ ~tracker.is_pdf
        /\ Len(tracker.line_ranges_read) < MaxRanges
        /\ tracker' = read_lines_tracked(tracker, doc_units, s, e)
        /\ last_op' = Op("read_lines", s, tracker'.line_ranges_read[Len(tracker'.line_ranges_read)][2])
        /\ UNCHANGED <<loopvars, doc_units, checkpoint_dir, output_file, ctx_in, ctx_out>>

NextTracker == TrUpdateProgress \/ TrReadPdfPages \/ TrGetPdfInfo \/ TrReadLinesTracked

SpecTracker == InitTracker /\ [][NextTracker]_vars

(***************************************************************************)
(* Claims about the ProgressTracker (SpecTracker)                          *)
(***************************************************************************)

\* C5: in page mode with total >= 1, is_reading_complete() is true if and
\* only if the pages marked read cover every page of 1..total.
C5_CompleteIffCovered ==
    (tracker.is_pdf /\ tracker.total_pages >= 1) =>
        (is_reading_complete(tracker) <=>
            (1..tracker.total_pages) \subseteq tracker.pages_read)

\* whether the step to the next state marks a range that is already marked
MarksMarkedRange ==
    /\ last_op'.op \in {"update_progress", "read_pdf_pages", "read_lines"}
    /\ IF tracker.is_pdf
       THEN (last_op'.a .. last_op'.b) \subseteq tracker.pages_read
       ELSE \E i \in 1..Len(tracker.line_ranges_read) :
                tracker.line_ranges_read[i] = <<last_op'.a, last_op'.b>>

\* C6: marking a range that is already marked leaves the percentage, the
\* completeness and the next chunk as they were, for pages and for lines.
C6_MarkReadIdempotent ==
    [][MarksMarkedRange =>
        /\ PctEq(get_progress_percentage(tracker'), get_progress_percentage(tracker))
        /\ is_reading_complete(tracker') = is_reading_complete(tracker)
        /\ get_next_chunk(tracker', DefaultChunkSize)
               = get_next_chunk(tracker, DefaultChunkSize)]_vars

\* C7: no unit outside 1..total is ever recorded as read, whatever the
\* arguments of update_progress and read_pdf_pages.
C7_DoneWithinTotal ==
    (tracker.is_pdf /\ tracker.total_pages = doc_units) =>
        tracker.pages_read \subseteq 1..tracker.total_pages

\* the chunk sizes get_next_chunk is asked for
ChunkSizes == {1, 2, DefaultChunkSize}

\* whether c is what the next chunk of size at most n has to be: none exactly
\* when reading is complete, else a range of unread pages that starts at the
\* smallest unread page and ends within the document
IsNextUnreadRange(c, n) ==
    /\ (c = <<>>) <=> is_reading_complete(tracker)
    /\ c # <<>> =>
          /\ c[1] \in (1..tracker.total_pages) \ tracker.pages_read
          /\ \A p \in (1..tracker.total_pages) \ tracker.pages_read : c[1] <= p
          /\ c[2] - c[1] + 1 <= n
          /\ c[2] <= tracker.total_pages
          /\ \A p \in c[1]..c[2] : p \notin tracker.pages_read

\* C19: in page mode get_next_chunk(chunk_size) is None exactly when reading
\* is complete, and otherwise a contiguous range of unread pages of at most
\* chunk_size pages that starts at the smallest unread page and ends at or
\* before the last page.
C19_NextChunkIsUnreadRange ==
    (tracker.is_pdf /\ tracker.total_pages = doc_units) =>
        \A n \in ChunkSizes : IsNextUnreadRange(get_next_chunk(tracker, n), n)

\* whether the step to the next state is a markRead that leaves total as it is
MarksRead ==
    /\ last_op'.op \in {"update_progress", "read_pdf_pages", "read_lines"}
    /\ tracker'.total_pages = tracker.total_pages
    /\ tracker'.total_lines = tracker.total_lines

\* C20: no markRead lowers the percentage: after every update_progress,
\* read_pdf_pages and read_lines, with total unchanged, the percentage is at
\* least what it was before.
C20_PercentNeverDecreases ==
    [][MarksRead =>
        PctLeq(get_progress_percentage(tracker),
               get_progress_percentage(tracker'))]_vars

\* whether some range marked read contains line l
LineMarked(l) ==
    \E i \in 1..Len(tracker.line_ranges_read) :
        tracker.line_ranges_read[i][1] <= l /\ l <= tracker.line_ranges_read[i][2]

\* C21: in line mode with total >= 1, is_reading_complete() is true if and
\* only if every line of 1..total lies in a range marked read.
C21_LinesCompleteIffCovered ==
    (~tracker.is_pdf /\ tracker.total_lines >= 1) =>
        (is_reading_complete(tracker) <=>
            \A l \in 1..tracker.total_lines : LineMarked(l))

(***************************************************************************)
(* Specification SpecCtx: the ContextManager applied to conversations.     *)
(* A conversation starts with the system prompt and the task prompt, as    *)
(* _setup_messages builds it; what follows is any sequence of messages.    *)
(***************************************************************************)
SystemMsg == Msg("system", SystemPromptLen, <<>>, "", "system")
TaskMsg == Msg("user", UserPromptLen, <<>>, "", "task")

CallOf(id) == ToolCall(id, "get_progress", NoArgs, TRUE, 2)

Alphabet ==
    { Msg("user", SmallLen, <<>>, "", "user"),
      Msg("assistant", BigLen, <<>>, "", "response"),
      Msg("assistant", 0, <<CallOf("a"), CallOf("b")>>, "", "response"),
      Msg("tool", SmallLen, <<>>, "a", "result"),
      Msg("tool", SmallLen, <<>>, "b", "result") }

Tails == UNION {[1..k -> Alphabet] : k \in 0..MaxCtxLen}

\* the orders in which a set of ids may be iterated
Orders ==
    {o \in [1..Cardinality(Ids) -> Ids] :
        \A i, j \in 1..Cardinality(Ids) : i # j => o[i] # o[j]}

InitCtx ==
    /\ Idle
    /\ pc = "ctx"
    /\ doc_units = MaxTotal
    /\ tracker = mark_pages_read(NewTracker(MaxTotal, 0, TRUE), 1, 1)
    /\ last_op = Op("init", 0, 0)
    /\ \E t \in Tails : ctx_in = <<SystemMsg, TaskMsg>> \o t
    /\ ctx_out = ctx_in

ctxframe == <<tracker, loopvars, doc_units, checkpoint_dir, output_file>>

CtxTruncate ==
    \E ord \in Orders :
        /\ ctx_in' = ctx_out
        /\ ctx_out' = truncate_if_needed(ctx_out, tracker, max_tokens, ord)
        /\ last_op' = Op("truncate", 0, 0)
        /\ UNCHANGED ctxframe

CtxValidate ==
    \E ord \in Orders :
        /\ ctx_in' = ctx_out
        /\ ctx_out' = _validate_and_fix_messages(ctx_out, ord)
        /\ last_op' = Op("validate", 0, 0)
        /\ UNCHANGED ctxframe

NextCtx == CtxTruncate \/ CtxValidate

SpecCtx == InitCtx /\ [][NextCtx]_vars

(***************************************************************************)
(* The pairing invariant of a message list                                 *)
(***************************************************************************)
IsToolCallMsg(m) == _get_message_role(m) = "assistant" /\ _has_tool_calls(m)
IsToolMsg(m) == _get_message_role(m) = "tool"

\* position j opens the run of tool results that position i is part of
Opens(msgs, j, i) ==
    /\ j < i
    /\ IsToolCallMsg(msgs[j])
    /\ \A k \in (j + 1)..(i - 1) : IsToolMsg(msgs[k])

\* a tool result that answers no id of the assistant message right before
\* its run of tool results
Orphan(msgs, i) ==
    /\ IsToolMsg(msgs[i])
    /\ ~\E j \in 1..Len(msgs) :
           Opens(msgs, j, i) /\ msgs[i].tool_call_id \in _get_tool_call_ids(msgs[j])

\* a tool call of position j that no tool result answers before the next
\* message that is not a tool result
Unanswered(msgs, j) ==
    /\ IsToolCallMsg(msgs[j])
    /\ \E id \in _get_tool_call_ids(msgs[j]) :
           ~\E i \in 1..Len(msgs) : Opens(msgs, j, i) /\ IsToolMsg(msgs[i])
                                    /\ msgs[i].tool_call_id = id

PairingOK(msgs) ==
    \A i \in 1..Len(msgs) : ~Orphan(msgs, i) /\ ~Unanswered(msgs, i)

(***************************************************************************)
(* Claims about the ContextManager (SpecCtx)                               *)
(***************************************************************************)

\* C3: the output of _validate_and_fix_messages has no orphan tool result
\* and no unanswered tool call, whatever the input.
C3_RepairYieldsPairing ==
    last_op.op = "validate" => PairingOK(ctx_out)

OverBudget(msgs) == estimate_tokens(msgs) > max_tokens
InUnits == _group_messages_by_conversation_units(ctx_in)
InRemaining == SubSeq(InUnits, 3, Len(InUnits))
Truncates == last_op.op = "truncate" /\ OverBudget(ctx_in) /\ Len(InUnits) > 3

\* a retention that fits: the first two units, the recovery message and
\* some newest suffix of whole units
Feasible ==
    \E k \in 0..Len(InRemaining) :
        estimate_tokens(Flatten(PreservedStart(InUnits)) \o <<RecoveryMessage(tracker)>>
                        \o Flatten(LastN(InRemaining, k))) <= max_tokens

\* C8 as claimed: when truncation happens and a feasible retention exists,
\* the output's estimated tokens are at most the budget.
C8_WithinBudgetIfFeasible ==
    (Truncates /\ Feasible) => estimate_tokens(ctx_out) <= max_tokens

InForced ==
    ForceKeep(InRemaining,
              GreedyKept(InRemaining, Len(InRemaining), 0,
                         AvailableTokens(InUnits, tracker, max_tokens)))

\* C8 as amended: when truncation happens on a conversation that satisfies
\* the pairing invariant and has at most 10000 units, and the force-keep rule
\* does not replace the scan's units, the output's estimated tokens are at
\* most the budget.
C8_WithinBudgetUnlessForced ==
    (Truncates /\ ~InForced /\ PairingOK(ctx_in) /\ Len(InUnits) <= TokenBuffer)
        => estimate_tokens(ctx_out) <= max_tokens

C8_Witness ==
    /\ Truncates /\ ~InForced /\ PairingOK(ctx_in)
    /\ ctx_out # ctx_in
    /\ ctx_out[3].text = "recovery"
    /\ estimate_tokens(ctx_out) <= max_tokens

\* whether s begins with p
StartsWith(s, p) == Len(p) <= Len(s) /\ SubSeq(s, 1, Len(p)) = p

\* C9: when the conversation is over budget, the output of truncate_if_needed
\* begins with the first two units of its input, unchanged and in order.
C9_FirstTwoUnitsKept ==
    (last_op.op = "truncate" /\ OverBudget(ctx_in)) =>
        StartsWith(ctx_out, Flatten(SubSeq(InUnits, 1, Min(2, Len(InUnits)))))

C9_Witness ==
    /\ Truncates
    /\ ctx_out # ctx_in
    /\ ctx_out[3].text = "recovery"
    /\ StartsWith(ctx_out, <<SystemMsg, TaskMsg>>)

\* C10: when the estimated tokens are at most the budget, truncate_if_needed
\* returns the conversation as it is: nothing dropped, added or repaired.
C10_NoOpUnderBudget ==
    (last_op.op = "truncate" /\ ~OverBudget(ctx_in)) => ctx_out = ctx_in

C10_Witness ==
    /\ last_op.op = "truncate" /\ ~OverBudget(ctx_in)
    /\ Len(ctx_in) > 3
    /\ ~PairingOK(ctx_in)
    /\ ctx_out = ctx_in

(***************************************************************************)
(* CHECKPOINT MANAGER: the checkpoint file of the input document           *)
(***************************************************************************)
\* Checkpoint.create(config, deepcopy(_progress_tracker), iteration, ...)
\* Checkpoint.create(config, progress, iteration, output_content);
\* output_content None is <<>>, a text is <<text>>
Checkpoint(tr, n, output_content) ==
    [progress_tracker |-> tr, iteration |-> n, output_file_content |-> output_content]

\* pickle.dump(checkpoint, f): the bytes written. A set is written as the
\* list of its elements, everything else field by field.
pickle_dump(checkpoint) ==
    [checkpoint EXCEPT !.progress_tracker.pages_read = Sorted(@)]

\* mutant: the set of pages read is not rebuilt from the pickled list
pickle_load_no_pages(bytes) ==
    [bytes EXCEPT !.progress_tracker.pages_read = {}]

\* pickle.load(f): the set is rebuilt from the list of its elements
pickle_load(bytes) ==
    [bytes EXCEPT !.progress_tracker.pages_read = {@[i] : i \in 1..Len(@)}]

\* the store after CheckpointManager.save(checkpoint): the file is overwritten
save(st, checkpoint) == <<pickle_dump(checkpoint)>>

\* CheckpointManager.load(input_path): None is <<>>
load(st) == IF st = <<>> THEN <<>> ELSE <<pickle_load(st[1])>>

\* mutant: delete leaves the checkpoint file where it is
delete_keeps(st) == st

\* the store after CheckpointManager.delete(input_path)
delete(st) == <<>>

\* a Checkpoint with its config_dict, of which only input_path is read
CheckpointOf(input_path, tr, n, output_content) ==
    [config_dict |-> [input_path |-> input_path]] @@ Checkpoint(tr, n, output_content)

\* the directory after CheckpointManager.save(checkpoint): the file named
\* after checkpoint.config_dict["input_path"] is overwritten
DirSave(dir, checkpoint) ==
    [dir EXCEPT ![_get_checkpoint_path(checkpoint.config_dict.input_path)] =
                    save(@, checkpoint)]

\* CheckpointManager.load(input_path) on the directory
DirLoad(dir, input_path) == load(dir[_get_checkpoint_path(input_path)])

\* the directory after CheckpointManager.delete(input_path)
DirDelete(dir, input_path) ==
    [dir EXCEPT ![_get_checkpoint_path(input_path)] = delete(@)]

\* _save_checkpoint: the output content that goes into the checkpoint. The
\* file is read when it exists; a read that raises is passed over and the
\* content stays None.
OutputContent(out, read_ok) == IF out # <<>> /\ read_ok THEN out ELSE <<>>

\* the store after _save_checkpoint(iteration), the output file being out
_save_checkpoint(st, tr, n, out, read_ok) ==
    save(st, Checkpoint(tr, n, OutputContent(out, read_ok)))

\* mutant: resume writes the snapshot over an output file that exists
RestoreOutputAlways(checkpoint, out) ==
    IF checkpoint.output_file_content # <<>> /\ checkpoint.output_file_content[1] # ""
    THEN checkpoint.output_file_content
    ELSE out

\* __init__ on resume: the output file after
\* "if checkpoint.output_file_content and not file_exists(output_path): write_file"
RestoreOutput(checkpoint, out) ==
    IF checkpoint.output_file_content # <<>> /\ checkpoint.output_file_content[1] # ""
       /\ out = <<>>
    THEN checkpoint.output_file_content
    ELSE out

\* mutant: a resumed agent starts counting at 0
ResumeIterationZero(checkpoint) == checkpoint.iteration - checkpoint.iteration

\* __init__ on resume: self.start_iteration = checkpoint.iteration
ResumeIteration(checkpoint) == checkpoint.iteration

(***************************************************************************)
(* MAIN AGENT                                                              *)
(***************************************************************************)
\* _check_completion_allowed(): <<can_complete, len(reason)>>
_check_completion_allowed(tr) ==
    IF ~is_reading_complete(tr)
    THEN <<FALSE, 14 + IntListLen(SubSeq(get_unread_pages(tr), 1,
                                         Min(3, Len(get_unread_pages(tr))))) + 3>>
    ELSE <<TRUE, 2>>

\* "Cannot finish: {reason}. Call get_progress() and continue."
RejectionMsg(reason) == Msg("user", 15 + reason + 35, <<>>, "", "reject")

\* "Read pages {a}-{b} now."
StallMsg(next_chunk) ==
    Msg("user", 11 + DecLen(next_chunk[1]) + 1 + DecLen(next_chunk[2]) + 5,
        <<>>, "", "stall")

\* mutant: the result carries the tool's name where the call's id belongs
ToolResultMsgWrongId(tc, content) == Msg("tool", content, <<>>, tc.name, "result")

ToolResultMsg(tc, content) == Msg("tool", content, <<>>, tc.id, "result")

\* len of the text read_pdf_pages returns: per page a header and the text
PageTextLen(pages) ==
    SumSeq([i \in 1..Len(Sorted(pages)) |-> 15 + DecLen(Sorted(pages)[i]) + BigLen])

\* _execute_function(function_name, function_args):
\* <<the tracker afterwards, len of the string returned>>
_execute_function(tr, tc, n_pages) ==
    CASE tc.name = "get_progress" -> <<tr, ProgressJsonLen(tr)>>
      [] tc.name = "update_progress" ->
            <<update_progress(tr, tc.args), ProgressJsonLen(update_progress(tr, tc.args))>>
      [] tc.name = "read_pdf_pages" ->
            <<read_pdf_pages(tr, n_pages, tc.args.start_page[1], tc.args.end_page),
              PageTextLen(PagesReturned(n_pages, tc.args.start_page[1], tc.args.end_page))>>
      [] tc.name = "get_pdf_info" -> <<get_pdf_info(tr, n_pages), SmallLen>>
      [] OTHER -> <<tr, 17 + Len(tc.name) + 17>>

\* the responses the completion service may return
PagesArgs(s, e) == [NoArgs EXCEPT !.pages_read_start = <<s>>, !.pages_read_end = <<e>>]
ReadArgs(s, e) == [NoArgs EXCEPT !.start_page = <<s>>, !.end_page = e]

Responses ==
    { Msg("assistant", SmallLen, <<>>, "", "response"),
      Msg("assistant", BigLen, <<>>, "", "response"),
      Msg("assistant", 0,
          <<ToolCall("a", "get_pdf_info", NoArgs, TRUE, SmallLen),
            ToolCall("b", "read_pdf_pages", ReadArgs(1, <<1>>), TRUE, SmallLen)>>,
          "", "response"),
      Msg("assistant", 0,
          <<ToolCall("a", "read_pdf_pages", ReadArgs(2, <<>>), TRUE, SmallLen)>>,
          "", "response"),
      Msg("assistant", 0,
          <<ToolCall("a", "update_progress", PagesArgs(0, MaxTotal + 1), TRUE, SmallLen)>>,
          "", "response"),
      Msg("assistant", 0,
          <<ToolCall("a", "get_progress", NoArgs, TRUE, 2),
            ToolCall("a", "no_such_tool", NoArgs, TRUE, 2)>>,
          "", "response"),
      Msg("assistant", 0, <<ToolCall("b", "get_progress", NoArgs, FALSE, 1)>>,
          "", "response") }

\* len(get_resume_prompt(config, checkpoint))
ResumePromptLen(tr) ==
    LET next_chunk == get_next_chunk(tr, DefaultChunkSize)
        unfilled == get_unfilled_sections(tr)
    IN  ResumeTemplateLen
        + PctFmtLen(get_progress_percentage(tr))
        + NatLen(Cardinality(tr.pages_read)) + DecLen(tr.total_pages)
        + Len(tr.current_phase)
        + StrListLen(SubSeq(unfilled, 1, Min(5, Len(unfilled))))
        + (IF next_chunk = <<>> THEN 8
           ELSE 11 + DecLen(next_chunk[1]) + 1 + DecLen(next_chunk[2]))

\* _setup_messages_resume: the user message of a resumed agent
ResumeMsg(checkpoint) ==
    Msg("user", ResumePromptLen(checkpoint.progress_tracker), <<>>, "", "resume")

\* __init__(config, resume) with no checkpoint for the input, then run() entered
Init ==
    /\ tracker = NewTracker(0, 0, TRUE)
    /\ messages = <<SystemMsg, TaskMsg>>
    /\ max_tokens = DefaultMaxContextTokens
    /\ store = <<>>
    /\ pc = "loop"
    /\ iteration = 0
    /\ stall_count = 0
    /\ last_progress = <<0, 1>>
    /\ tool_calls = <<>>
    /\ ret = "none"
    /\ doc_units = MaxTotal
    /\ last_op = Op("init", 0, 0)
    /\ ctx_in = <<>>
    /\ ctx_out = <<>>
    /\ start_iteration = 0
    /\ pct_log = <<>>
    /\ output_file = <<>>
    /\ checkpoint_dir = EmptyDir

\* After run() has ended, a new agent is constructed for the same input with
\* the same configuration and resume=True (__init__, lines 869-898), and its
\* run() is entered (lines 1000-1003).
Restart ==
    /\ pc = "done"
    /\ LET checkpoint == load(store) IN
       IF checkpoint # <<>>
       THEN /\ tracker' = checkpoint[1].progress_tracker
            /\ start_iteration' = ResumeIteration(checkpoint[1])
            /\ output_file' = RestoreOutput(checkpoint[1], output_file)
            /\ messages' = <<SystemMsg, ResumeMsg(checkpoint[1])>>
            /\ last_op' = Op("resume", checkpoint[1].iteration, 0)
       ELSE /\ tracker' = NewTracker(0, 0, TRUE)
            /\ start_iteration' = 0
            /\ output_file' = output_file
            /\ messages' = <<SystemMsg, TaskMsg>>
            /\ last_op' = Op("init", 0, 0)
    /\ iteration' = start_iteration'
    /\ max_tokens' = DefaultMaxContextTokens
    /\ stall_count' = 0
    /\ last_progress' = <<0, 1>>
    /\ tool_calls' = <<>>
    /\ ret' = "none"
    /\ pc' = "loop"
    /\ ctx_in' = <<>>
    /\ ctx_out' = <<>>
    /\ pct_log' = <<>>
    /\ UNCHANGED <<store, doc_units, checkpoint_dir>>

\* mutant: the directive waits for a fourth stalled iteration
StallCheckLate ==
    LET current == get_progress_percentage(tracker)
        counted == IF PctEq(current, last_progress) /\ PctPositive(current)
                   THEN stall_count + 1 ELSE 0
        next_chunk == get_next_chunk(tracker, DefaultChunkSize)
        directive == counted >= 4 /\ next_chunk # <<>>
    IN  <<IF directive THEN Append(messages, StallMsg(next_chunk)) ELSE messages,
          IF directive THEN 0 ELSE counted,
          directive>>

\* mutant: the counter is not reset when a directive is appended
StallCheckNoReset ==
    LET current == get_progress_percentage(tracker)
        counted == IF PctEq(current, last_progress) /\ PctPositive(current)
                   THEN stall_count + 1 ELSE 0
        next_chunk == get_next_chunk(tracker, DefaultChunkSize)
        directive == counted >= 3 /\ next_chunk # <<>>
    IN  <<IF directive THEN Append(messages, StallMsg(next_chunk)) ELSE messages,
          counted,
          directive>>

\* run(), lines 1008-1024: the stall check at the head of an iteration:
\* <<the messages afterwards, stall_count afterwards, whether a directive
\*   was appended>>
StallCheck ==
    LET current == get_progress_percentage(tracker)
        counted == IF PctEq(current, last_progress) /\ PctPositive(current)
                   THEN stall_count + 1 ELSE 0
        next_chunk == get_next_chunk(tracker, DefaultChunkSize)
        directive == counted >= 3 /\ next_chunk # <<>>
    IN  <<IF directive THEN Append(messages, StallMsg(next_chunk)) ELSE messages,
          IF directive THEN 0 ELSE counted,
          directive>>

\* whether line 1029 takes the auto-checkpoint in this iteration
AutoCheckpointDue == iteration > 0 /\ iteration % AutoCheckpointInterval = 0

\* run(), lines 1003-1035: the head of one iteration up to the completion call
LoopIteration ==
    /\ pc = "loop"
    /\ iteration < MaxIterations
    /\ last_progress' = get_progress_percentage(tracker)
    /\ stall_count' = StallCheck[2]
    /\ pct_log' = LastN(Append(pct_log, [pct |-> get_progress_percentage(tracker),
                                         nudged |-> StallCheck[3]]), 4)
    /\ store' = IF AutoCheckpointDue
                THEN _save_checkpoint(store, tracker, iteration, output_file, TRUE)
                ELSE store
    /\ \E ord \in Orders :
          /\ messages' = truncate_if_needed(StallCheck[1], tracker, max_tokens, ord)
          /\ ctx_in' = StallCheck[1]
          /\ ctx_out' = messages'
    /\ last_op' = Op(IF StallCheck[3] THEN "stall" ELSE "iterate", iteration, 0)
    /\ pc' = "call"
    /\ UNCHANGED <<tracker, max_tokens, iteration, tool_calls, ret, doc_units, checkpoint_dir,
                   output_file,
                   start_iteration>>

\* run(), line 1030: the auto-checkpoint is due and writing the checkpoint
\* file raises (open() fails, the file is left as it was); nothing catches it
LoopAutosaveFails ==
    /\ pc = "loop"
    /\ iteration < MaxIterations
    /\ AutoCheckpointDue
    /\ last_progress' = get_progress_percentage(tracker)
    /\ stall_count' = StallCheck[2]
    /\ pct_log' = LastN(Append(pct_log, [pct |-> get_progress_percentage(tracker),
                                         nudged |-> StallCheck[3]]), 4)
    /\ messages' = StallCheck[1]
    /\ ret' = "raised"
    /\ pc' = "done"
    /\ last_op' = Op("autosave_failed", iteration, 0)
    /\ UNCHANGED <<tracker, max_tokens, store, iteration, tool_calls, doc_units, checkpoint_dir,
                   output_file,
                   ctx_in, ctx_out, start_iteration>>

\* mutant: at the end of the budget the loop starts over
LoopExhaustedRewinds ==
    /\ pc = "loop"
    /\ iteration >= MaxIterations
    /\ iteration' = start_iteration
    /\ last_op' = Op("exhausted", iteration, 0)
    /\ UNCHANGED <<tracker, messages, max_tokens, store, pc, stall_count, ret,
                   last_progress, tool_calls, doc_units, checkpoint_dir,
                   output_file, ctx_in, ctx_out,
                   start_iteration, pct_log>>

\* run(), lines 1112-1114: the iteration budget is exhausted
LoopExhausted ==
    /\ pc = "loop"
    /\ iteration >= MaxIterations
    /\ store' = _save_checkpoint(store, tracker, MaxIterations, output_file, TRUE)
    /\ ret' = "false"
    /\ pc' = "done"
    /\ last_op' = Op("exhausted", iteration, 0)
    /\ UNCHANGED <<tracker, messages, max_tokens, iteration, stall_count,
                   last_progress, tool_calls, doc_units, checkpoint_dir,
                   output_file, ctx_in, ctx_out,
                   start_iteration, pct_log>>

\* run(), line 1112: writing the final checkpoint raises
LoopExhaustedSaveFails ==
    /\ pc = "loop"
    /\ iteration >= MaxIterations
    /\ ret' = "raised"
    /\ pc' = "done"
    /\ last_op' = Op("exhausted_save_failed", iteration, 0)
    /\ UNCHANGED <<tracker, messages, max_tokens, store, iteration, stall_count,
                   last_progress, tool_calls, doc_units, checkpoint_dir,
                   output_file, ctx_in, ctx_out,
                   start_iteration, pct_log>>

\* run(), lines 1074-1097: the response is appended; without tool calls the
\* completion gate decides, with tool calls the dispatch loop starts
HandleResponse(r) ==
    LET gate == _check_completion_allowed(tracker) IN
    IF r.tool_calls = <<>>
    THEN IF gate[1]
         THEN /\ messages' = Append(messages, r)
              /\ store' = delete(store)
              /\ ret' = "true"
              /\ pc' = "done"
              /\ last_op' = Op("complete", iteration, 0)
              /\ UNCHANGED <<iteration, tool_calls>>
         ELSE /\ messages' = Append(Append(messages, r), RejectionMsg(gate[2]))
              /\ iteration' = iteration + 1
              /\ pc' = "loop"
              /\ last_op' = Op("reject", iteration, 0)
              /\ UNCHANGED <<store, ret, tool_calls>>
    ELSE /\ messages' = Append(messages, r)
         /\ tool_calls' = r.tool_calls
         /\ pc' = "dispatch"
         /\ last_op' = Op("response", iteration, 0)
         /\ UNCHANGED <<store, ret, iteration>>

\* litellm.completion returns a response
CallReturns ==
    /\ pc = "call"
    /\ \E r \in Responses : HandleResponse(r)
    /\ UNCHANGED <<tracker, max_tokens, stall_count, last_progress, doc_units, checkpoint_dir,
                   output_file,
                   ctx_in, ctx_out, start_iteration, pct_log>>

\* litellm.completion raises ContextWindowExceededError, or a BadRequestError
\* whose text contains "tool" or "context": lines 1049-1057
CallOverflows ==
    /\ pc = "call"
    /\ max_tokens' = (max_tokens * 6) \div 10
    /\ \E ord \in Orders :
          /\ messages' = truncate_if_needed(messages, tracker, max_tokens', ord)
          /\ ctx_in' = messages
          /\ ctx_out' = messages'
    /\ store' = _save_checkpoint(store, tracker, iteration, output_file, TRUE)
    /\ pc' = "retry"
    /\ last_op' = Op("overflow", iteration, 0)
    /\ UNCHANGED <<tracker, iteration, stall_count, last_progress, tool_calls,
                   ret, doc_units, checkpoint_dir, output_file, start_iteration, pct_log>>

\* the same error, and writing the checkpoint of line 1057 raises
CallOverflowsSaveFails ==
    /\ pc = "call"
    /\ max_tokens' = (max_tokens * 6) \div 10
    /\ \E ord \in Orders :
          /\ messages' = truncate_if_needed(messages, tracker, max_tokens', ord)
          /\ ctx_in' = messages
          /\ ctx_out' = messages'
    /\ ret' = "raised"
    /\ pc' = "done"
    /\ last_op' = Op("overflow_save_failed", iteration, 0)
    /\ UNCHANGED <<tracker, store, iteration, stall_count, last_progress,
                   tool_calls, doc_units, checkpoint_dir,
                   output_file, start_iteration, pct_log>>

\* litellm.completion raises a BadRequestError of another text: lines 1070-1072
\* (when writing the checkpoint raises, that exception propagates instead)
CallBadRequest ==
    /\ pc = "call"
    /\ \/ /\ store' = _save_checkpoint(store, tracker, iteration, output_file, TRUE)
          /\ last_op' = Op("bad_request", iteration, 0)
       \/ /\ store' = store
          /\ last_op' = Op("bad_request_save_failed", iteration, 0)
    /\ ret' = "raised"
    /\ pc' = "done"
    /\ UNCHANGED <<tracker, messages, max_tokens, iteration, stall_count,
                   last_progress, tool_calls, doc_units, checkpoint_dir,
                   output_file, ctx_in, ctx_out,
                   start_iteration, pct_log>>

\* litellm.completion raises an exception the except clause of line 1045 does
\* not name (RateLimitError, Timeout, APIConnectionError, ...)
CallOtherError ==
    /\ pc = "call"
    /\ ret' = "raised"
    /\ pc' = "done"
    /\ last_op' = Op("service_error", iteration, 0)
    /\ UNCHANGED <<tracker, messages, max_tokens, store, iteration, stall_count,
                   last_progress, tool_calls, doc_units, checkpoint_dir,
                   output_file, ctx_in, ctx_out,
                   start_iteration, pct_log>>

\* the retry of line 1060 returns a response
RetryReturns ==
    /\ pc = "retry"
    /\ \E r \in Responses : HandleResponse(r)
    /\ UNCHANGED <<tracker, max_tokens, stall_count, last_progress, doc_units, checkpoint_dir,
                   output_file,
                   ctx_in, ctx_out, start_iteration, pct_log>>

\* mutant: the exception of the retry propagates
RetryRaises ==
    /\ pc = "retry"
    /\ ret' = "raised"
    /\ pc' = "done"
    /\ last_op' = Op("retry_failed", iteration, 0)
    /\ UNCHANGED <<tracker, messages, max_tokens, store, iteration, stall_count,
                   last_progress, tool_calls, doc_units, checkpoint_dir,
                   output_file, ctx_in, ctx_out,
                   start_iteration, pct_log>>

\* the retry raises: lines 1066-1069
RetryFails ==
    /\ pc = "retry"
    /\ ret' = "false"
    /\ pc' = "done"
    /\ last_op' = Op("retry_failed", iteration, 0)
    /\ UNCHANGED <<tracker, messages, max_tokens, store, iteration, stall_count,
                   last_progress, tool_calls, doc_units, checkpoint_dir,
                   output_file, ctx_in, ctx_out,
                   start_iteration, pct_log>>

\* run(), lines 1099-1110: one tool call of the response is dispatched
Dispatch ==
    /\ pc = "dispatch"
    /\ LET tc == Head(tool_calls) IN
       IF ~tc.json_ok
       THEN \* json.loads(tool_call.function.arguments) raises
            /\ ret' = "raised"
            /\ pc' = "done"
            /\ last_op' = Op("bad_arguments", iteration, 0)
            /\ UNCHANGED <<tracker, messages, iteration, tool_calls>>
       ELSE LET done == _execute_function(tracker, tc, doc_units) IN
            /\ tracker' = done[1]
            /\ messages' = Append(messages, ToolResultMsg(tc, done[2]))
            /\ tool_calls' = Tail(tool_calls)
            /\ iteration' = IF Tail(tool_calls) = <<>> THEN iteration + 1 ELSE iteration
            /\ pc' = IF Tail(tool_calls) = <<>> THEN "loop" ELSE "dispatch"
            /\ last_op' = Op("tool", iteration, 0)
            /\ ret' = ret
    /\ UNCHANGED <<max_tokens, store, stall_count, last_progress, doc_units, checkpoint_dir,
                   output_file,
                   ctx_in, ctx_out, start_iteration, pct_log>>

Next ==
    \/ LoopIteration \/ LoopAutosaveFails
    \/ LoopExhausted \/ LoopExhaustedSaveFails
    \/ CallReturns \/ CallOverflows \/ CallOverflowsSaveFails
    \/ CallBadRequest \/ CallOtherError
    \/ RetryReturns \/ RetryFails
    \/ Dispatch
    \/ Restart

Spec == Init /\ [][Next]_vars

\* the steps of run(): everything but the construction of the next agent
RunStep ==
    \/ LoopIteration \/ LoopAutosaveFails
    \/ LoopExhausted \/ LoopExhaustedSaveFails
    \/ CallReturns \/ CallOverflows \/ CallOverflowsSaveFails
    \/ CallBadRequest \/ CallOtherError
    \/ RetryReturns \/ RetryFails
    \/ Dispatch

\* run() is sequential code: while it has not ended its next statement is
\* executed; a completion call returns or raises, a tool handler returns.
\* This is weak fairness of RunStep, WF_vars(RunStep), with its enabling
\* condition written out: a step of run() is possible exactly while
\* pc # "done", and every such step changes pc or tool_calls.
RunFairness == []<>(pc = "done") \/ []<><<RunStep>>_vars

SpecLive == Init /\ [][Next]_vars /\ RunFairness

(***************************************************************************)
(* Claims about run() (Spec)                                               *)
(***************************************************************************)

\* C1: run() returns True only when every page of the input document has
\* been marked read.
C1_SuccessOnlyWhenAllRead ==
    ret = "true" => (1..doc_units) \subseteq tracker.pages_read

AtCompletionCall == pc \in {"call", "retry"}

\* C2: at every completion call, first attempt and retry, the message list
\* satisfies the pairing invariant.
C2_PairingAtEveryCall ==
    AtCompletionCall => PairingOK(messages)

\* a retry after an overflow whose truncation kept a recovery message in
\* front of units with tool results, one of them after a stall or a rejection
C2_Witness ==
    /\ pc = "retry"
    /\ \E i, j, k \in 1..Len(messages) :
          /\ i < j /\ i < k
          /\ messages[i].text = "recovery"
          /\ IsToolMsg(messages[j])
          /\ messages[k].text = "reject"

\* C4: whenever run() ends without success, a checkpoint of the input exists
\* and was saved no earlier than the iteration that failed.
C4_FailureLeavesCheckpoint ==
    ret \in {"false", "raised"} =>
        (store # <<>> /\ store[1].iteration >= iteration)

\* whether the step to the next state is the overflow path up to its retry
OverflowStep == pc = "call" /\ pc' = "retry"

\* C11: on a context-overflow error the budget becomes int(0.6 * budget), the
\* conversation is truncated again under it, a checkpoint of the current
\* progress and iteration is saved and the call is retried in the same
\* iteration; after the retry there is no third call in that iteration, and
\* a failed retry returns False, raises nothing and leaves that checkpoint.
C11_OverflowShrinksRetriesOnce ==
    [][/\ OverflowStep =>
             /\ 10 * max_tokens' <= 6 * max_tokens
             /\ 6 * max_tokens < 10 * (max_tokens' + 1)
             /\ \E ord \in Orders :
                   messages' = truncate_if_needed(messages, tracker, max_tokens', ord)
             /\ load(store') = <<Checkpoint(tracker, iteration, output_file)>>
             /\ iteration' = iteration /\ tracker' = tracker
       /\ pc' = "retry" => pc = "call"
       /\ pc' = "call" => pc = "loop"
       /\ pc = "retry" =>
             /\ ret' # "raised"
             /\ (pc' = "done" /\ ret' # "true") =>
                   /\ ret' = "false"
                   /\ store' = store
                   /\ load(store') = <<Checkpoint(tracker', iteration', output_file')>>
      ]_vars

\* a retry that failed after the overflow path truncated the conversation
C11_Witness ==
    /\ last_op.op = "retry_failed"
    /\ ret = "false"
    /\ max_tokens < DefaultMaxContextTokens
    /\ ctx_out # ctx_in
    /\ load(store) = <<Checkpoint(tracker, iteration, output_file)>>

\* C12: when the completion call fails with anything but a context overflow,
\* run() raises the error and a checkpoint of the current progress and
\* iteration has been saved.
C12_OtherErrorsCheckpointed ==
    last_op.op \in {"bad_request", "service_error"} =>
        /\ ret = "raised"
        /\ load(store) = <<Checkpoint(tracker, iteration, output_file)>>

\* C13: when writing the periodic checkpoint fails, run() goes on: the
\* iteration proceeds to its truncation and its completion call.
C13_AutosaveFailureNotFatal ==
    last_op.op = "autosave_failed" => (ret = "none" /\ pc = "call")

\* whether the step to the next state calls _save_checkpoint and the write succeeds
SaveStep ==
    \/ pc = "loop" /\ pc' = "call" /\ AutoCheckpointDue
    \/ pc = "call" /\ last_op'.op \in {"overflow", "bad_request"}
    \/ pc = "loop" /\ last_op'.op = "exhausted"

\* whether the step to the next state calls CheckpointManager.delete
DeleteStep == pc \in {"call", "retry"} /\ last_op'.op = "complete"

\* C14: load returns the checkpoint of the most recent save, with the
\* progress and the iteration it was given, or None after a delete: every
\* save makes load return the checkpoint saved, every delete makes it return
\* None, and no other step changes what load returns.
C14_LoadReturnsLastSave ==
    [][/\ SaveStep => load(store') = <<Checkpoint(tracker, iteration, output_file)>>
       /\ DeleteStep => load(store') = <<>>
       /\ ~(SaveStep \/ DeleteStep) => load(store') = load(store)
      ]_vars

\* a checkpoint with pages read is in the store and the progress has moved on
C14_Witness ==
    /\ store # <<>>
    /\ load(store)[1].progress_tracker.pages_read # {}
    /\ load(store)[1].progress_tracker # tracker
    /\ load(store)[1].iteration < iteration

\* C15: the checkpoint is removed only by the step in which a response without
\* tool calls arrives and _check_completion_allowed accepts, and whenever run() has
\* returned True the store holds no checkpoint of the input.
C15_DeleteOnlyAtGate ==
    /\ [][(store # <<>> /\ store' = <<>>) =>
             /\ pc \in {"call", "retry"}
             /\ _check_completion_allowed(tracker)[1]
             /\ messages'[Len(messages')].role = "assistant"
             /\ messages'[Len(messages')].tool_calls = <<>>
             /\ ret' = "true"]_vars
    /\ [](ret = "true" => store = <<>>)

\* a resumed run, whose checkpoint was in the store, has returned True
C15_Witness ==
    /\ ret = "true"
    /\ start_iteration > 0
    /\ store = <<>>

\* C16: an exhausted iteration budget saves a checkpoint of the progress and
\* returns False, and an agent that resumes from a checkpoint with the same
\* configuration has at least one loop iteration left to execute.
C16_ExhaustedRunResumes ==
    /\ last_op.op = "exhausted" =>
          (ret = "false" /\ load(store) = <<Checkpoint(tracker, MaxIterations, output_file)>>)
    /\ last_op.op = "resume" =>
          (pc = "loop" /\ tracker = load(store)[1].progress_tracker
              /\ iteration < MaxIterations)

\* the percentage was the same positive value at the last four iteration
\* heads, and the two heads before this one appended no directive
StalledThrice ==
    /\ Len(pct_log) = 4
    /\ \A i \in 1..3 : PctEq(pct_log[i].pct, pct_log[4].pct)
    /\ PctPositive(pct_log[4].pct)
    /\ ~pct_log[2].nudged /\ ~pct_log[3].nudged

\* C17: at the completion call of an iteration whose percentage is positive
\* and equal to that of the three iterations before it, with no directive in
\* the last two and an unread chunk left, the last message of the
\* conversation is the directive "Read pages s-e now." for the next chunk.
C17_DirectiveOnThirdStall ==
    (last_op.op \in {"iterate", "stall"} /\ StalledThrice
        /\ get_next_chunk(tracker, DefaultChunkSize) # <<>>) =>
        /\ pc = "call"
        /\ pct_log[4].nudged
        /\ messages[Len(messages)] = StallMsg(get_next_chunk(tracker, DefaultChunkSize))

C17_Witness ==
    /\ last_op.op = "stall"
    /\ StalledThrice
    /\ pc = "call"
    /\ messages[Len(messages)].text = "stall"

\* the number of tool messages at the end of the conversation
TrailingResults ==
    CHOOSE k \in 0..Len(messages) :
        /\ \A i \in (Len(messages) - k + 1)..Len(messages) : IsToolMsg(messages[i])
        /\ k < Len(messages) => ~IsToolMsg(messages[Len(messages) - k])

\* C18: when the tool calls of a response have been dispatched, the
\* conversation ends with the response followed by one tool result per call,
\* carrying the ids of the calls in request order; and dispatching a tool
\* call never ends run() with an exception.
C18_EveryCallAnsweredNoRaise ==
    /\ (pc = "loop" /\ last_op.op = "tool") =>
          LET n == TrailingResults
              r == messages[Len(messages) - n]
          IN  /\ n < Len(messages)
              /\ IsToolCallMsg(r)
              /\ Len(r.tool_calls) = n
              /\ \A i \in 1..n :
                    messages[Len(messages) - n + i].tool_call_id = r.tool_calls[i].id
    /\ last_op.op \in {"tool", "bad_arguments"} => ret # "raised"

(***************************************************************************)
(* More claims about the ContextManager (SpecCtx)                          *)
(***************************************************************************)
\* whether msgs is the first two units of the input, the recovery message and
\* the newest k units of the rest, for some k
IsTruncationShape(msgs) ==
    \E k \in 0..Len(InRemaining) :
        msgs = Flatten(SubSeq(InUnits, 1, 2))
                   \o <<RecoveryMessage(tracker)>>
                   \o Flatten(LastN(InRemaining, k))

\* C28: whenever truncate_if_needed truncates, its output is the first two
\* units, one recovery message and a newest suffix of the remaining units,
\* whole and in order, with nothing dropped from them and no placeholder.
C28_TruncationShape ==
    Truncates => IsTruncationShape(ctx_out)

\* a tool result that repeats the id of an earlier result of its run
DuplicateResult(msgs, i) ==
    /\ IsToolMsg(msgs[i])
    /\ \E k \in 1..(i - 1) :
          /\ \A m \in k..i : IsToolMsg(msgs[m])
          /\ msgs[k].tool_call_id = msgs[i].tool_call_id

\* the pairing invariant with every tool-call id answered by one result only
ExactlyPaired(msgs) ==
    PairingOK(msgs) /\ \A i \in 1..Len(msgs) : ~DuplicateResult(msgs, i)

\* C28, for a conversation in which every tool-call id is answered by exactly
\* one tool result and no tool result is an orphan
C28_TruncationShapeOfPaired ==
    (Truncates /\ ExactlyPaired(ctx_in)) => IsTruncationShape(ctx_out)

\* a truncation that dropped a unit and kept a tool-call unit with its results
C28_Witness ==
    /\ Truncates /\ ExactlyPaired(ctx_in)
    /\ Len(ctx_out) <= Len(ctx_in)
    /\ \E i \in 4..Len(ctx_out) : IsToolMsg(ctx_out[i])

(***************************************************************************)
(* Specification SpecGroup: _group_messages_by_conversation_units applied  *)
(* to any short conversation, tool results of foreign ids included.        *)
(***************************************************************************)
GroupAlphabet ==
    { Msg("user", SmallLen, <<>>, "", "user"),
      Msg("assistant", SmallLen, <<>>, "", "response"),
      Msg("assistant", 0, <<CallOf("a")>>, "", "response"),
      Msg("assistant", 0, <<CallOf("a"), CallOf("b")>>, "", "response"),
      Msg("tool", SmallLen, <<>>, "a", "result"),
      Msg("tool", SmallLen, <<>>, "b", "result") }

InitGroup ==
    /\ Idle
    /\ pc = "group"
    /\ doc_units = MaxTotal
    /\ tracker = NewTracker(0, 0, TRUE)
    /\ last_op = Op("init", 0, 0)
    /\ ctx_in \in UNION {[1..k -> GroupAlphabet] : k \in 0..MaxGroupLen}
    /\ ctx_out = ctx_in

\* the units are recorded in last_op.b, their number in last_op.a
GrGroup ==
    /\ last_op' = Op("group",
                     Len(_group_messages_by_conversation_units(ctx_in)),
                     _group_messages_by_conversation_units(ctx_in))
    /\ UNCHANGED <<tracker, loopvars, doc_units, checkpoint_dir, output_file, ctx_in, ctx_out>>

NextGroup == GrGroup

SpecGroup == InitGroup /\ [][NextGroup]_vars

\* whether unit is one message, or an assistant message with tool calls
\* followed by tool results of its ids only
IsUnit(unit) ==
    /\ Len(unit) >= 1
    /\ Len(unit) > 1 =>
          /\ IsToolCallMsg(unit[1])
          /\ \A k \in 2..Len(unit) :
                /\ IsToolMsg(unit[k])
                /\ _get_tool_call_id(unit[k]) \in _get_tool_call_ids(unit[1])

\* C29: the units returned for a conversation, concatenated in order, are the
\* conversation itself, and each unit is a single message or an assistant
\* message with tool calls followed by tool results that carry its ids.
C29_GroupingPartitions ==
    last_op.op = "group" =>
        /\ Flatten(last_op.b) = ctx_in
        /\ \A u \in 1..Len(last_op.b) : IsUnit(last_op.b[u])

\* a tool-call unit with a result, followed by a tool result left outside it
C29_Witness ==
    /\ last_op.op = "group"
    /\ \E u \in 1..(Len(last_op.b) - 1) :
          /\ Len(last_op.b[u]) >= 2
          /\ IsToolMsg(last_op.b[u + 1][1])


(***************************************************************************)
(* THE TOOL LAYER (SpecTools): update_progress with arbitrary arguments,   *)
(* the normalisation of handler results, and a second agent in the same    *)
(* process.                                                                *)
(***************************************************************************)
\* a handler's return value: None, a str, a list of str, or a dict of str
ResNone == [kind |-> "none", s |-> "", items |-> <<>>, pairs |-> <<>>]
ResStr(text) == [kind |-> "str", s |-> text, items |-> <<>>, pairs |-> <<>>]
ResList(items) == [kind |-> "list", s |-> "", items |-> items, pairs |-> <<>>]
ResDict(pairs) == [kind |-> "dict", s |-> "", items |-> <<>>, pairs |-> pairs]

\* "\n".join(items)
RECURSIVE JoinLines(_)
JoinLines(items) ==
    IF items = <<>> THEN ""
    ELSE IF Len(items) = 1 THEN items[1]
    ELSE items[1] \o "\n" \o JoinLines(Tail(items))

\* the members of json.dumps(d, indent=2), one per line, separated by ","
RECURSIVE JsonMembers(_)
JsonMembers(pairs) ==
    IF pairs = <<>> THEN ""
    ELSE "  \"" \o pairs[1].k \o "\": \"" \o pairs[1].v \o "\""
         \o (IF Len(pairs) = 1 THEN "" ELSE ",\n" \o JsonMembers(Tail(pairs)))

\* json.dumps(d, indent=2) of a dict of strings
JsonDumps(pairs) ==
    IF pairs = <<>> THEN "{}" ELSE "{\n" \o JsonMembers(pairs) \o "\n}"

\* the text _execute_function makes of the handler's return value
NormalizeResult(result) ==
    CASE result.kind = "none" -> "Success"
      [] result.kind = "str" -> result.s
      [] result.kind = "list" ->
            IF result.items # <<>> THEN JoinLines(result.items) ELSE "(empty)"
      [] OTHER -> JsonDumps(result.pairs)

\* values the handlers of FUNCTION_MAP return
HandlerResults ==
    { ResNone, ResStr(""), ResStr("Created"),
      ResList(<<>>), ResList(<<"a.txt">>), ResList(<<"a.txt", "b.txt">>),
      ResDict(<<>>), ResDict(<<[k |-> "path", v |-> "a.txt"]>>),
      ResDict(<<[k |-> "path", v |-> "a.txt"], [k |-> "type", v |-> "file"]>>) }

\* summaries given to update_progress: "", a short one, one over the cap
ShortSummary == <<1, 2, 3>>
LongSummary == [i \in 1..(SummaryCap + 1) |-> i % 3]
SummaryArgs == {<<>>, <<(<<>>)>>, <<ShortSummary>>, <<LongSummary>>}

\* the argument lists update_progress is called with: a section and its
\* summary, a phase (any string), or the declared sections and the template flag
UpdateArgs ==
    {[NoArgs EXCEPT !.section_filled = <<sf>>, !.section_summary = ss] :
         sf \in {"S1", "S2"}, ss \in SummaryArgs}
    \cup {[NoArgs EXCEPT !.section_summary = ss] : ss \in {<<ShortSummary>>}}
    \cup {[NoArgs EXCEPT !.current_phase = <<ph>>] : ph \in {"TEMPLATE", "DONE", "BOGUS"}}
    \cup {[NoArgs EXCEPT !.sections_identified = si, !.template_created = tc] :
             si \in {<<>>, <<(<<"S1", "S2">>)>>, <<(<<"S2">>)>>}, tc \in {<<>>, <<TRUE>>}}

InitTools ==
    /\ Idle
    /\ pc = "tools"
    /\ doc_units = MaxTotal
    /\ tracker \in {NewTracker(0, 0, TRUE), NewTracker(0, 0, FALSE)}
    /\ last_op = Op("init", 0, 0)
    /\ ctx_in = <<>>
    /\ ctx_out = <<>>

\* update_progress(section_filled=, section_summary=, sections_identified=,
\*                 current_phase=, template_created=)
TlUpdateProgress ==
    \E args \in UpdateArgs :
        /\ tracker' = update_progress(tracker, args)
        /\ last_op' = Op("update_progress", args, 0)
        /\ UNCHANGED <<loopvars, doc_units, checkpoint_dir, output_file, ctx_in, ctx_out>>

\* _execute_function on a handler that returns result
TlExecute ==
    \E result \in HandlerResults :
        /\ last_op' = Op("execute", result, NormalizeResult(result))
        /\ UNCHANGED <<tracker, loopvars, doc_units, checkpoint_dir,
                   output_file, ctx_in, ctx_out>>

\* DocumentSummarizationAgent(config2, resume) for another input that has no
\* checkpoint: the module's tracker is replaced
TlSecondAgent ==
    \E pdf \in BOOLEAN :
        /\ tracker' = NewTracker(0, 0, pdf)
        /\ last_op' = Op("second_agent", pdf, 0)
        /\ UNCHANGED <<loopvars, doc_units, checkpoint_dir, output_file, ctx_in, ctx_out>>

NextTools == TlUpdateProgress \/ TlExecute \/ TlSecondAgent

SpecTools == InitTools /\ [][NextTools]_vars

\* C22: the tool-result text is "Success" for None, the string itself for a
\* string, the items joined by newlines for a list (the empty text for the
\* empty list), and pretty-printed JSON for a dict.
C22_ResultNormalised ==
    last_op.op = "execute" =>
        last_op.b = CASE last_op.a.kind = "none" -> "Success"
                      [] last_op.a.kind = "str" -> last_op.a.s
                      [] last_op.a.kind = "list" -> JoinLines(last_op.a.items)
                      [] OTHER -> JsonDumps(last_op.a.pairs)

\* C23: the phase of the progress state is always one of INIT, TEMPLATE,
\* EXTRACTION, FINALIZE, DONE, whatever arguments update_progress is given.
C23_PhaseIsAPhase == tracker.current_phase \in Phases

\* C24: constructing a second agent in the same process never changes the
\* progress the first agent's handlers, gate and checkpoints read and write.
C24_SecondAgentLeavesProgress ==
    [][last_op'.op = "second_agent" => tracker' = tracker]_vars

\* the summary stored for a section, "" when none is stored
StoredSummary(tr, name) ==
    DictGet(tr.section_summaries, name, <<>>)
IsPrefix(p, t) == Len(p) <= Len(t) /\ p = SubSeq(t, 1, Len(p))
GivenSummary(args) ==
    IF args.section_summary # <<>> THEN args.section_summary[1] ELSE <<>>
AllSummariesCapped(tr) ==
    \A i \in 1..Len(tr.section_summaries) : Len(tr.section_summaries[i].v) <= SummaryCap

\* C27 (as stated): after mark_section_filled(name, summary) the section is
\* filled and the summary stored for it is a prefix of the given summary of
\* at most 500 characters; every stored summary has at most 500 characters.
C27_StoresPrefix ==
    /\ []AllSummariesCapped(tracker)
    /\ [][(last_op'.op = "update_progress" /\ last_op'.a.section_filled # <<>>) =>
            /\ DictGet(tracker'.sections_filled, last_op'.a.section_filled[1], FALSE) = TRUE
            /\ IsPrefix(StoredSummary(tracker', last_op'.a.section_filled[1]),
                        GivenSummary(last_op'.a))
            /\ Len(StoredSummary(tracker', last_op'.a.section_filled[1])) <= SummaryCap]_vars

\* C27 (amended): after mark_section_filled(name, summary) the section is
\* filled; for a non-empty summary the stored summary is its first 500
\* characters, for an empty summary the stored summaries are left as they
\* were; every stored summary has at most 500 characters.
C27_StoresPrefixOfNonEmpty ==
    /\ []AllSummariesCapped(tracker)
    /\ [][(last_op'.op = "update_progress" /\ last_op'.a.section_filled # <<>>) =>
            /\ DictGet(tracker'.sections_filled, last_op'.a.section_filled[1], FALSE) = TRUE
            /\ GivenSummary(last_op'.a) # <<>> =>
                 /\ StoredSummary(tracker', last_op'.a.section_filled[1])
                      = SubSeq(GivenSummary(last_op'.a), 1,
                               Min(Len(GivenSummary(last_op'.a)), SummaryCap))
                 /\ IsPrefix(StoredSummary(tracker', last_op'.a.section_filled[1]),
                             GivenSummary(last_op'.a))
            /\ GivenSummary(last_op'.a) = <<>> =>
                 tracker'.section_summaries = tracker.section_summaries]_vars

\* a summary over the cap was given and cut, and a later call with an empty
\* summary has left it in place
C27_Witness ==
    /\ last_op.op = "update_progress"
    /\ last_op.a.section_filled = <<"S1">>
    /\ GivenSummary(last_op.a) = <<>>
    /\ StoredSummary(tracker, "S1") = SubSeq(LongSummary, 1, SummaryCap)


(***************************************************************************)
(* CHECKPOINTS AND THE OUTPUT FILE (SpecCkpt): iterations that make        *)
(* progress, writes of the output file, checkpoints saved with the output  *)
(* file in any condition, the loss of either file, and the construction of *)
(* a new agent with or without resume.                                     *)
(***************************************************************************)
MaxCkptIter == 2

\* texts the output file may hold
Contents == {"", "v1", "v2"}

InitCkpt ==
    /\ Idle
    /\ pc = "ckpt"
    /\ doc_units = MaxTotal
    /\ tracker = NewTracker(0, 0, TRUE)
    /\ last_op = Op("init", 0, 0)
    /\ ctx_in = <<>>
    /\ ctx_out = <<>>

ckptframe == <<max_tokens, pc, stall_count, last_progress, tool_calls, ret,
               doc_units, checkpoint_dir, ctx_in, ctx_out, pct_log>>

\* one iteration of run() in which the model reports one more page read
CkIteration ==
    /\ iteration < MaxCkptIter
    /\ tracker' = update_progress(tracker, PagesArgs(iteration + 1, iteration + 1))
    /\ iteration' = iteration + 1
    /\ last_op' = Op("iteration", iteration, 0)
    /\ UNCHANGED <<ckptframe, messages, store, start_iteration, output_file>>

\* write_file(output_path, content) called as a tool
CkWriteOutput ==
    \E content \in Contents :
        /\ output_file' = <<content>>
        /\ last_op' = Op("write_file", content, 0)
        /\ UNCHANGED <<ckptframe, messages, tracker, store, iteration, start_iteration>>

\* the output file disappears (nothing in the program removes it)
CkOutputLost ==
    /\ output_file # <<>>
    /\ output_file' = <<>>
    /\ last_op' = Op("output_lost", 0, 0)
    /\ UNCHANGED <<ckptframe, messages, tracker, store, iteration, start_iteration>>

\* _save_checkpoint(iteration); read_file of an output file that exists
\* returns its content or raises
CkSave ==
    \E read_ok \in BOOLEAN :
        /\ store' = _save_checkpoint(store, tracker, iteration, output_file, read_ok)
        /\ last_op' = Op("save", read_ok, output_file)
        /\ UNCHANGED <<ckptframe, messages, tracker, iteration, start_iteration,
                       output_file>>

\* CheckpointManager.delete(input_path), or the loss of the checkpoint file
CkDelete ==
    /\ store # <<>>
    /\ store' = delete(store)
    /\ last_op' = Op("delete", 0, 0)
    /\ UNCHANGED <<ckptframe, messages, tracker, iteration, start_iteration,
                   output_file>>

\* DocumentSummarizationAgent(config, resume) for the same input, and the
\* entry of its run(): the loop starts at start_iteration
CkConstruct ==
    \E resume \in BOOLEAN :
        LET checkpoint == IF resume THEN load(store) ELSE <<>> IN
        /\ IF checkpoint # <<>>
           THEN /\ tracker' = checkpoint[1].progress_tracker
                /\ start_iteration' = ResumeIteration(checkpoint[1])
                /\ output_file' = RestoreOutput(checkpoint[1], output_file)
                /\ messages' = <<SystemMsg, ResumeMsg(checkpoint[1])>>
           ELSE /\ tracker' = NewTracker(0, 0, TRUE)
                /\ start_iteration' = 0
                /\ output_file' = output_file
                /\ messages' = <<SystemMsg, TaskMsg>>
        /\ iteration' = start_iteration'
        /\ last_op' = Op("construct", resume,
                         [found |-> checkpoint # <<>>, existed |-> output_file # <<>>])
        /\ UNCHANGED <<ckptframe, store>>

NextCkpt ==
    \/ CkIteration
    \/ CkWriteOutput
    \/ CkOutputLost
    \/ CkSave
    \/ CkDelete
    \/ CkConstruct

SpecCkpt == InitCkpt /\ [][NextCkpt]_vars

\* C25 (as stated): every checkpoint saved while the output file exists
\* embeds the file's content; on resume the output file is restored from
\* the embedded snapshot exactly when the file is missing; an output file
\* that exists is never overwritten by resume.
C25_OutputNeverLost ==
    /\ [][(last_op'.op = "save" /\ output_file # <<>>) =>
            store'[1].output_file_content = output_file]_vars
    /\ [][(last_op'.op = "construct" /\ last_op'.a /\ store # <<>>
           /\ store[1].output_file_content # <<>>) =>
            IF output_file = <<>>
            THEN output_file' = store[1].output_file_content
            ELSE output_file' = output_file]_vars

\* C25 (amended): a checkpoint embeds the output file's content when the
\* file exists and can be read, and no content otherwise; on resume the
\* output file is written from the snapshot exactly when the snapshot is a
\* non-empty text and the file is missing; in every other construction the
\* output file is left as it is, so an existing file is never overwritten.
C25_OutputBackedUpWhenReadable ==
    /\ [][last_op'.op = "save" =>
            /\ store' # <<>>
            /\ store'[1].output_file_content =
                   (IF output_file # <<>> /\ last_op'.a THEN output_file ELSE <<>>)
            /\ output_file' = output_file]_vars
    /\ [][last_op'.op = "construct" =>
            IF /\ last_op'.a
               /\ store # <<>>
               /\ store[1].output_file_content \notin {<<>>, <<"">>}
               /\ output_file = <<>>
            THEN output_file' = store[1].output_file_content
            ELSE output_file' = output_file]_vars

\* a resumed agent found the output file missing and wrote it back from the
\* snapshot; the checkpoint that held it was saved while the file existed
C25_Witness ==
    /\ last_op.op = "construct"
    /\ last_op.a
    /\ last_op.b.found
    /\ ~last_op.b.existed
    /\ output_file = <<"v1">>
    /\ store # <<>>
    /\ store[1].output_file_content = <<"v1">>

\* C30: an agent constructed with resume enabled while a checkpoint exists
\* has the checkpoint's progress (dumping it gives the stored snapshot) and
\* starts its loop at the checkpoint's iteration counter; with no
\* checkpoint, or resume disabled, it has fresh progress and starts at 0.
C30_ResumeStartsFromCheckpoint ==
    [][last_op'.op = "construct" =>
         IF last_op'.a /\ store # <<>>
         THEN /\ [tracker' EXCEPT !.pages_read = Sorted(@)] = store[1].progress_tracker
              /\ start_iteration' = store[1].iteration
              /\ iteration' = store[1].iteration
         ELSE /\ tracker' = NewTracker(0, 0, TRUE)
              /\ start_iteration' = 0
              /\ iteration' = 0]_vars

\* an agent resumed from a checkpoint taken after two iterations, while the
\* process had gone on (or started afresh) in between
C30_Witness ==
    /\ last_op.op = "construct"
    /\ last_op.a
    /\ last_op.b.found
    /\ start_iteration = MaxCkptIter
    /\ iteration = MaxCkptIter
    /\ tracker.pages_read = 1..MaxCkptIter


(***************************************************************************)
(* Termination of run() (SpecLive)                                         *)
(***************************************************************************)
\* C26: run() terminates: the loop index stays within start_iteration and
\* max_iterations and grows by one each time the loop is re-entered, the
\* first completion call of an iteration is made from the loop head only and
\* the retry from the first call only, every call is left before another is
\* made, run() ends with exactly one of True, False or a raised error, and
\* a run that has not ended eventually ends.
C26_RunTerminates ==
    /\ [](start_iteration <= iteration /\ iteration <= MaxIterations)
    /\ [](ret \in {"none", "true", "false", "raised"})
    /\ [](pc = "done" <=> ret \in {"true", "false", "raised"})
    /\ [][/\ pc' = "call" => pc = "loop"
          /\ pc' = "retry" => pc = "call"
          /\ pc \in {"call", "retry"} => pc' \notin {pc, "call"}
          /\ (pc' = "loop" /\ pc # "done") =>
                 (pc # "loop" /\ iteration' = iteration + 1)
          /\ (pc # "done" /\ pc' # "loop") => iteration' = iteration
          /\ (pc = "done" /\ pc' = "done") => ret' = ret]_vars
    /\ (pc # "done") ~> (pc = "done")

\* a run resumed from a checkpoint used the retry in its last iteration and
\* ended with the budget exhausted
C26_Witness ==
    /\ pc = "done"
    /\ ret = "false"
    /\ last_op.op = "exhausted"
    /\ start_iteration > 0
    /\ iteration = MaxIterations
    /\ max_tokens < DefaultMaxContextTokens


(***************************************************************************)
(* More claims about the tool layer (SpecTools)                            *)
(***************************************************************************)
IsFilled(tr, name) == DictGet(tr.sections_filled, name, FALSE)
InSeq(x, seq) == \E i \in 1..Len(seq) : seq[i] = x

\* C37: a section that is filled stays filled, and stays out of the
\* unfilled list, over every update_progress call, also one that declares
\* sections_identified again with the same or another list.
C37_FilledStaysFilled ==
    [][last_op'.op = "update_progress" =>
         \A name \in {"S1", "S2"} :
             IsFilled(tracker, name) =>
                 /\ IsFilled(tracker', name)
                 /\ ~InSeq(name, get_unfilled_sections(tracker'))]_vars

\* the sections were declared again after S1 had been filled; S1 is still
\* filled and only S2 is listed as unfilled
C37_Witness ==
    /\ last_op.op = "update_progress"
    /\ last_op.a.sections_identified = <<(<<"S1", "S2">>)>>
    /\ IsFilled(tracker, "S1")
    /\ get_unfilled_sections(tracker) = <<"S2">>


(***************************************************************************)
(* More claims about the ProgressTracker (SpecTracker)                     *)
(***************************************************************************)
\* C35: after read_pdf_pages(start, end) the pages marked read are the ones
\* marked before and the pages whose text the call returned, no others.
C35_MarkedAreReturned ==
    [][last_op'.op = "read_pdf_pages" =>
         tracker'.pages_read =
             tracker.pages_read
             \cup {i + 1 : i \in ReadStartIdx(last_op'.a)..(last_op'.b - 1)}]_vars


Idempotent(msgs) ==
    \A ord \in Orders : _validate_and_fix_messages(msgs, ord) = msgs

\* C34 (as stated): _validate_and_fix_messages returns a conversation that
\* satisfies the pairing invariant unchanged, and applied to its own output
\* it returns that output unchanged.
C34_RepairIsIdentityOnPaired ==
    last_op.op = "validate" =>
        /\ PairingOK(ctx_in) => ctx_out = ctx_in
        /\ Idempotent(ctx_out)

\* C34 (amended): _validate_and_fix_messages returns unchanged a conversation
\* without orphans and unanswered calls in which no tool-call id is answered
\* twice, and applied to its own output it returns that output unchanged.
C34_RepairIsIdentityOnExactlyPaired ==
    last_op.op = "validate" =>
        /\ ExactlyPaired(ctx_in) => ctx_out = ctx_in
        /\ Idempotent(ctx_out)

\* a conversation with a tool-call message and its results went through
\* validation unchanged
C34_Witness ==
    /\ last_op.op = "validate"
    /\ ExactlyPaired(ctx_in)
    /\ ctx_out = ctx_in
    /\ \E i \in 1..Len(ctx_in) : IsToolCallMsg(ctx_in[i])
    /\ \E i \in 1..Len(ctx_in) : IsToolMsg(ctx_in[i])


\* C32: for an over-budget input the estimated tokens of the output of
\* truncate_if_needed are at most those of its input.
C32_TruncationNeverGrows ==
    (last_op.op = "truncate" /\ OverBudget(ctx_in)) =>
        estimate_tokens(ctx_out) <= estimate_tokens(ctx_in)

\* the number of units the budget scan selected in the last truncation
InGreedyKept ==
    GreedyKept(InRemaining, Len(InRemaining), 0,
               AvailableTokens(InUnits, tracker, max_tokens))

\* C33: when the forced tail replaces the units of the budget scan, every
\* unit the scan had selected is in the retained tail (the scan selects a
\* newest suffix, so the tail is at least as long).
C33_ForceKeepOnlyAdds ==
    (Truncates /\ InForced) =>
        InGreedyKept <= Len(KeptUnits(InRemaining,
                                      AvailableTokens(InUnits, tracker, max_tokens)))

(***************************************************************************)
(* THE CHECKPOINT DIRECTORY SHARED BY SEVERAL INPUTS                       *)
(* One CheckpointManager serves runs on the documents of InputPaths: each  *)
(* step is one call of save, load or delete for one of them.               *)
(***************************************************************************)
InitStore ==
    /\ Idle
    /\ pc = "store"
    /\ doc_units = MaxTotal
    /\ tracker = NewTracker(0, 0, TRUE)
    /\ last_op = Op("init", 0, 0)
    /\ ctx_in = <<>>
    /\ ctx_out = <<>>

storeframe == <<tracker, messages, max_tokens, store, pc, iteration, stall_count,
                last_progress, tool_calls, ret, doc_units, ctx_in, ctx_out,
                start_iteration, pct_log, output_file>>

\* CheckpointManager.save of a checkpoint taken at iteration n of the run on p
StSave(p, n) ==
    /\ pc = "store"
    /\ checkpoint_dir' = DirSave(checkpoint_dir, CheckpointOf(p, tracker, n, <<>>))
    /\ last_op' = Op("save", p, n)
    /\ UNCHANGED storeframe

\* CheckpointManager.load(p): the result is recorded in last_op.b
StLoad(p) ==
    /\ pc = "store"
    /\ last_op' = Op("load", p, DirLoad(checkpoint_dir, p))
    /\ UNCHANGED <<storeframe, checkpoint_dir>>

\* CheckpointManager.delete(p)
StDelete(p) ==
    /\ pc = "store"
    /\ checkpoint_dir' = DirDelete(checkpoint_dir, p)
    /\ last_op' = Op("delete", p, 0)
    /\ UNCHANGED storeframe

NextStore ==
    \/ \E p \in InputPaths, n \in 0..1 : StSave(p, n)
    \/ \E p \in InputPaths : StLoad(p)
    \/ \E p \in InputPaths : StDelete(p)

SpecStore == InitStore /\ [][NextStore]_vars

\* C31: checkpoints of two different input documents never interfere: save,
\* load and delete for one input path leave what load returns for every other
\* input path unchanged, and load(path) never returns a checkpoint that was
\* saved for a different input path.
C31_NoInterference ==
    /\ [][last_op'.op \in {"save", "load", "delete"} =>
             \A q \in InputPaths \ {last_op'.a} :
                 DirLoad(checkpoint_dir', q) = DirLoad(checkpoint_dir, q)]_vars
    /\ [](last_op.op = "load" /\ last_op.b # <<>> =>
             last_op.b[1].config_dict.input_path = last_op.a)

=============================================================================
